---- MODULE Spec2Model ----
(***************************************************************************)
(* The sans-I/O AMQP 0-9-1 connection state machine of lapin-async         *)
(* (async/src/connection.rs): handshake, tune negotiation, the two-tier    *)
(* outbound queue and the dispatch of incoming frames; and the future      *)
(* adapter of lapin-futures (futures/src/confirmation.rs) over the         *)
(* Confirmation of lapin-async.                                            *)
(***************************************************************************)
EXTENDS Integers, Sequences, FiniteSets, TLC

VARIABLES
  state,            \* Connection.state
  configuration,    \* Connection.configuration {channel_max, frame_max, heartbeat}
  vhost,            \* Connection.vhost
  credentials,      \* Connection.credentials: Option<Credentials>
  priority_frames,  \* Connection.priority_frames: VecDeque<AMQPFrame>
  frame_receiver,   \* the shared unbounded channel (frame_sender -> frame_receiver)
  channels,         \* Connection.channels: the registry, channel id -> channel
  deliveries,       \* messages handed to the consumer, in order
  sent,             \* history: every frame ever put on the shared channel
  written,          \* history: every frame serialize wrote to a buffer
  pushed,           \* history: how many frames the caller pushed on the priority deque
  ret,              \* the last operation, its input and what it returned
  confirmation,     \* the Confirmation<T>: its slot and its subscribers
  notified,         \* history: how often each notifier that subscribed was notified
  inner,            \* ConfirmationFuture.inner: Result<Confirmation<T>, Option<Error>>
  subscribed,       \* ConfirmationFuture.subscribed
  task              \* the task that polls the future: where its poll stands, what it saw

\* the connection
cvars == <<state, configuration, vhost, credentials, priority_frames,
           frame_receiver, channels, deliveries, sent, written, pushed>>
\* the confirmation and its future
fvars == <<confirmation, notified, inner, subscribed, task>>

\* every variable; the operation and the kind of its result stand first, so that two
\* results are compared only when they are results of one kind of one operation
vars == <<ret.op, ret.kind, state, configuration, vhost, credentials, priority_frames,
          frame_receiver, channels, deliveries, sent, written, pushed,
          confirmation, notified, inner, subscribed, task, ret>>

----------------------------------------------------------------------------
(* Bounds of the model *)

\* frames the channels' producers put on the shared channel
MaxEnqueued == 2
\* frames the caller pushes on the priority deque (preemptive or requeued)
MaxPriority == 1
\* messages delivered to the consumer
MaxDeliveries == 1
\* notifiers that subscribe to the confirmation directly
MaxSubscribers == 2
\* polls of the future that no wake-up asked for
MaxPolls == 2

(* Program constants *)

U16Max == 65535

\* a u32 is kept as its two 16-bit halves: U32(hi, lo) is hi * 65536 + lo
U32(hi, lo) == [hi |-> hi, lo |-> lo]
U32Zero == U32(0, 0)
U32Max  == U32(U16Max, U16Max)
U32Less(a, b) == a.hi < b.hi \/ (a.hi = b.hi /\ a.lo < b.lo)

----------------------------------------------------------------------------
(* ConnectionState, ConnectingState, ClosingState *)

ConnectingSubStates ==
  {"Initial", "ReceivedStart", "SentStartOk", "ReceivedTune", "SentTuneOk",
   "SentOpen", "ReceivedSecure", "SentSecure", "ReceivedSecondSecure", "Error"}

ClosingSubStates ==
  {"Initial", "SentClose", "ReceivedClose", "SentCloseOk", "ReceivedCloseOk", "Error"}

StInitial   == [tag |-> "Initial"]
StConnected == [tag |-> "Connected"]
StClosed    == [tag |-> "Closed"]
StError     == [tag |-> "Error"]
Connecting(sub) == [tag |-> "Connecting", sub |-> [tag |-> sub]]
Closing(sub)    == [tag |-> "Closing", sub |-> [tag |-> sub]]
SentProtocolHeader(options) ==
  [tag |-> "Connecting", sub |-> [tag |-> "SentProtocolHeader", options |-> options]]

IsConnecting(s, sub) == s.tag = "Connecting" /\ s.sub.tag = sub

(* FieldTable: a map from keys to values *)

EmptyTable == [k \in {} |-> "none"]
Insert(t, key, v) == [k \in (DOMAIN t) \cup {key} |-> IF k = key THEN v ELSE t[k]]

(* ConnectionProperties and its Default *)

DefaultProperties ==
  [mechanism |-> "PLAIN", locale |-> "en_US", client_properties |-> EmptyTable]

NamedProperties ==
  [mechanism |-> "PLAIN", locale |-> "en_US",
   client_properties |-> Insert(Insert(EmptyTable, "product", "app"), "version", "1")]

(* Credentials: strings are sequences of characters *)

NoCredentials == [some |-> FALSE]
Some(c) == [some |-> TRUE, v |-> c]
DefaultCredentials ==
  [username |-> <<"g","u","e","s","t">>, password |-> <<"g","u","e","s","t">>]
UserCredentials == [username |-> <<"u">>, password |-> <<"p","w">>]
UnwrapOrDefault(o) == IF o.some THEN o.v ELSE DefaultCredentials

\* sasl::plain_auth_string: NUL username NUL password
PlainAuthString(username, password) == <<"NUL">> \o username \o <<"NUL">> \o password

VhostSet == {<<"/">>, <<"v","h">>}

(* Configuration *)

DefaultConfiguration == [channel_max |-> 0, frame_max |-> U32Zero, heartbeat |-> 0]

----------------------------------------------------------------------------
(* AMQPFrame *)

NoFrame           == [type |-> "none"]
ProtocolHeader    == [type |-> "ProtocolHeader"]
Heartbeat(ch)     == [type |-> "Heartbeat", ch |-> ch]
Method(ch, m)     == [type |-> "Method", ch |-> ch, m |-> m]
Header(ch, size)  == [type |-> "Header", ch |-> ch, body_size |-> size]
Body(ch, payload) == [type |-> "Body", ch |-> ch, payload |-> payload]

(* connection class methods *)

Start(mechanisms, locales) ==
  [class |-> "Connection", name |-> "Start", mechanisms |-> mechanisms, locales |-> locales]
Tune(channel_max, frame_max, heartbeat) ==
  [class |-> "Connection", name |-> "Tune", channel_max |-> channel_max,
   frame_max |-> frame_max, heartbeat |-> heartbeat]
OpenOk  == [class |-> "Connection", name |-> "OpenOk"]
Close   == [class |-> "Connection", name |-> "Close"]
CloseOk == [class |-> "Connection", name |-> "CloseOk"]
StartOk(client_properties, mechanism, locale, response) ==
  [class |-> "Connection", name |-> "StartOk", client_properties |-> client_properties,
   mechanism |-> mechanism, locale |-> locale, response |-> response]
TuneOk(channel_max, frame_max, heartbeat) ==
  [class |-> "Connection", name |-> "TuneOk", channel_max |-> channel_max,
   frame_max |-> frame_max, heartbeat |-> heartbeat]
Open(virtual_host) ==
  [class |-> "Connection", name |-> "Open", virtual_host |-> virtual_host]

(* basic class methods *)

Deliver(consumer_tag, routing_key) ==
  [class |-> "Basic", name |-> "Deliver", consumer_tag |-> consumer_tag,
   routing_key |-> routing_key]
BasicAck == [class |-> "Basic", name |-> "Ack"]
\* the n-th publish of a channel; its routing key is a shortstr of key_len bytes
Publish(n, key_len) ==
  [class |-> "Basic", name |-> "Publish", n |-> n, key_len |-> key_len]

FrameChannel(f) == IF f.type = "ProtocolHeader" THEN 0 ELSE f.ch
IsMethod(f, ch, name) == f.type = "Method" /\ f.ch = ch /\ f.m.name = name
IsGlobal(f)           == f.type = "Method" /\ f.ch = 0

(* Frame codec: sizes on the wire, gen_frame and parse_frame *)

TableSize(t) == 4 + 16 * Cardinality(DOMAIN t)

ArgSize(m) ==
  CASE m.name = "StartOk" ->
         TableSize(m.client_properties) + (1 + Len(m.mechanism))
           + (4 + Len(m.response)) + (1 + Len(m.locale))
    [] m.name = "TuneOk"  -> 2 + 4 + 2
    [] m.name = "Open"    -> (1 + Len(m.virtual_host)) + 1 + 1
    [] m.name = "Publish" -> 2 + 1 + (1 + m.key_len) + 1
    [] OTHER              -> 0

\* type:u8 | channel:u16 | size:u32 | payload | 0xCE
FrameSize(f) ==
  CASE f.type = "ProtocolHeader" -> 8
    [] f.type = "Heartbeat"      -> 7 + 1
    [] f.type = "Method"         -> 7 + (2 + 2 + ArgSize(f.m)) + 1
    [] f.type = "Header"         -> 7 + (2 + 2 + 8 + 2) + 1
    [] f.type = "Body"           -> 7 + Len(f.payload) + 1

\* a short string holds at most 255 bytes
Generable(f) == ~(f.type = "Method" /\ f.m.name = "Publish" /\ f.m.key_len > 255)

GenFrame(buf, f) ==
  IF ~Generable(f) THEN [ok |-> FALSE, err |-> "CustomError"]
  ELSE IF FrameSize(f) > buf THEN [ok |-> FALSE, err |-> "BufferTooSmall"]
  ELSE [ok |-> TRUE, sz |-> FrameSize(f)]

\* the bytes handed to parse: a whole frame, the start of one, or no frame at all
Complete(f) == [kind |-> "Complete", frame |-> f]
Incomplete  == [kind |-> "Incomplete"]
Garbage     == [kind |-> "Garbage"]

ParseFrame(data) ==
  CASE data.kind = "Complete"   -> [ok |-> TRUE, frame |-> data.frame,
                                    consumed |-> FrameSize(data.frame)]
    [] data.kind = "Incomplete" -> [ok |-> FALSE, incomplete |-> TRUE]
    [] data.kind = "Garbage"    -> [ok |-> FALSE, incomplete |-> FALSE]

----------------------------------------------------------------------------
(* Channels registry and channel status *)

ChConnected == [tag |-> "Connected"]
ChError     == [tag |-> "Error"]
WillReceiveContent(queue, consumer_tag) ==
  [tag |-> "WillReceiveContent", queue |-> queue, consumer_tag |-> consumer_tag]
ReceivingContent(queue, consumer_tag, remaining) ==
  [tag |-> "ReceivingContent", queue |-> queue, consumer_tag |-> consumer_tag,
   remaining |-> remaining]

NoChannels == [id \in {} |-> "none"]
Channel(st, data) == [state |-> st, data |-> data]
SetChannel(chs, id, ch) == [i \in (DOMAIN chs) \cup {id} |-> IF i = id THEN ch ELSE chs[i]]

ChannelsResult(ok, chs, dl) == [ok |-> ok, channels |-> chs, deliveries |-> dl]

\* Channels::receive_method
ReceiveMethod(chs, dl, id, m) ==
  IF id \notin DOMAIN chs THEN ChannelsResult(FALSE, chs, dl)
  ELSE IF chs[id].state.tag # "Connected"
    THEN ChannelsResult(FALSE, SetChannel(chs, id, Channel(ChError, <<>>)), dl)
  ELSE IF m.name = "Deliver"
    THEN ChannelsResult(TRUE,
           SetChannel(chs, id,
             Channel(WillReceiveContent(m.routing_key, Some(m.consumer_tag)), <<>>)), dl)
  ELSE ChannelsResult(TRUE, chs, dl)

\* a header handler that waits for body frames even when the header announces no byte
HandleContentHeaderFrameWaitsForBody(chs, dl, id, body_size) ==
  IF id \notin DOMAIN chs THEN ChannelsResult(FALSE, chs, dl)
  ELSE IF chs[id].state.tag # "WillReceiveContent"
    THEN ChannelsResult(FALSE, SetChannel(chs, id, Channel(ChError, <<>>)), dl)
  ELSE ChannelsResult(TRUE,
         SetChannel(chs, id,
           Channel(ReceivingContent(chs[id].state.queue, chs[id].state.consumer_tag,
                                    body_size), <<>>)), dl)

\* Channels::handle_content_header_frame
HandleContentHeaderFrame(chs, dl, id, body_size) ==
  IF id \notin DOMAIN chs THEN ChannelsResult(FALSE, chs, dl)
  ELSE IF chs[id].state.tag # "WillReceiveContent"
    THEN ChannelsResult(FALSE, SetChannel(chs, id, Channel(ChError, <<>>)), dl)
  ELSE IF body_size = 0
    THEN ChannelsResult(TRUE, SetChannel(chs, id, Channel(ChConnected, <<>>)),
                        Append(dl, <<>>))
  ELSE ChannelsResult(TRUE,
         SetChannel(chs, id,
           Channel(ReceivingContent(chs[id].state.queue, chs[id].state.consumer_tag,
                                    body_size), <<>>)), dl)

\* a body handler that does not compare the payload with the bytes that remain
HandleBodyFrameNoLengthCheck(chs, dl, id, payload) ==
  IF id \notin DOMAIN chs THEN ChannelsResult(FALSE, chs, dl)
  ELSE IF chs[id].state.tag # "ReceivingContent"
    THEN ChannelsResult(FALSE, SetChannel(chs, id, Channel(ChError, <<>>)), dl)
  ELSE IF Len(payload) >= chs[id].state.remaining
    THEN ChannelsResult(TRUE, SetChannel(chs, id, Channel(ChConnected, <<>>)),
                        Append(dl, chs[id].data \o payload))
  ELSE ChannelsResult(TRUE,
         SetChannel(chs, id,
           Channel(ReceivingContent(chs[id].state.queue, chs[id].state.consumer_tag,
                                    chs[id].state.remaining - Len(payload)),
                   chs[id].data \o payload)), dl)

\* Channels::handle_body_frame
HandleBodyFrame(chs, dl, id, payload) ==
  IF id \notin DOMAIN chs THEN ChannelsResult(FALSE, chs, dl)
  ELSE IF chs[id].state.tag # "ReceivingContent" \/ Len(payload) > chs[id].state.remaining
    THEN ChannelsResult(FALSE, SetChannel(chs, id, Channel(ChError, <<>>)), dl)
  ELSE IF Len(payload) = chs[id].state.remaining
    THEN ChannelsResult(TRUE, SetChannel(chs, id, Channel(ChConnected, <<>>)),
                        Append(dl, chs[id].data \o payload))
  ELSE ChannelsResult(TRUE,
         SetChannel(chs, id,
           Channel(ReceivingContent(chs[id].state.queue, chs[id].state.consumer_tag,
                                    chs[id].state.remaining - Len(payload)),
                   chs[id].data \o payload)), dl)

----------------------------------------------------------------------------
(* The outbound queues *)

\* send_preemptive_frame that queues the frame behind the frames already waiting
PushFrontAtBack(pf, frame) == Append(pf, frame)
\* VecDeque::push_front / push_back on the priority deque
PushFront(pf, frame) == <<frame>> \o pf
\* push_back that loses the frame
PushBackLost(pf, frame) == pf
PushBack(pf, frame)  == Append(pf, frame)

\* next_frame that looks at the shared channel first
NextFrameReceiverFirst(pf, fr) ==
  IF fr # <<>> THEN [some |-> TRUE, frame |-> Head(fr), priority |-> pf, receiver |-> Tail(fr)]
  ELSE IF pf # <<>> THEN [some |-> TRUE, frame |-> Head(pf), priority |-> Tail(pf), receiver |-> fr]
  ELSE [some |-> FALSE, priority |-> pf, receiver |-> fr]

\* Connection::next_frame: the priority deque first, then the shared channel
NextFrameOf(pf, fr) ==
  IF pf # <<>> THEN [some |-> TRUE, frame |-> Head(pf), priority |-> Tail(pf), receiver |-> fr]
  ELSE IF fr # <<>> THEN [some |-> TRUE, frame |-> Head(fr), priority |-> pf, receiver |-> Tail(fr)]
  ELSE [some |-> FALSE, priority |-> pf, receiver |-> fr]

\* Connection::has_pending_frames
\* has_pending_frames that looks at the priority deque only
HasPendingFramesPriorityOnly(pf, fr) == pf # <<>>

HasPendingFramesOf(pf, fr) == pf # <<>> \/ fr # <<>>

----------------------------------------------------------------------------
(* Connection::handle_global_method *)

Capabilities ==
  Insert(Insert(Insert(Insert(Insert(Insert(EmptyTable,
    "publisher_confirms", TRUE), "exchange_exchange_bindings", TRUE), "basic.nack", TRUE),
    "consumer_cancel_notify", TRUE), "connection.blocked", TRUE),
    "authentication_failure_close", TRUE)

\* the client properties sent in StartOk
ClientProperties(options) ==
  LET cp0 == options.client_properties
      cp1 == IF "product" \notin DOMAIN cp0 \/ "version" \notin DOMAIN cp0
             THEN Insert(Insert(cp0, "product", "lapin-async"), "version", "CARGO_PKG_VERSION")
             ELSE cp0
      cp2 == Insert(cp1, "platform", "rust")
  IN Insert(cp2, "capabilities", Capabilities)

GlobalResult(st, cfg, creds, out) ==
  [state |-> st, configuration |-> cfg, credentials |-> creds, out |-> out]

\* the Start step that leaves the credentials in their slot
OnStartKeepsCredentials(options, cfg, creds) ==
  LET saved_creds == UnwrapOrDefault(creds)
      start_ok    == StartOk(ClientProperties(options), options.mechanism, options.locale,
                             PlainAuthString(saved_creds.username, saved_creds.password))
  IN GlobalResult(Connecting("SentStartOk"), cfg, creds, <<Method(0, start_ok)>>)

\* SentProtocolHeader(options), Connection.Start received
OnStart(options, cfg, creds) ==
  LET saved_creds == UnwrapOrDefault(creds)
      start_ok    == StartOk(ClientProperties(options), options.mechanism, options.locale,
                             PlainAuthString(saved_creds.username, saved_creds.password))
  IN GlobalResult(Connecting("SentStartOk"), cfg, NoCredentials, <<Method(0, start_ok)>>)

NegotiateHeartbeat(own, peer) ==
  IF own = 0 \/ (peer # 0 /\ peer < own) THEN peer ELSE own

NegotiateChannelMax(own, peer) ==
  LET v == IF peer # 0 /\ (own = 0 \/ peer < own) THEN peer ELSE own
  IN IF v = 0 THEN U16Max ELSE v

\* NegotiateFrameMax with the comparison turned round: the larger value wins
NegotiateFrameMaxLargest(own, peer) ==
  LET v == IF peer # U32Zero /\ (own = U32Zero \/ U32Less(own, peer)) THEN peer ELSE own
  IN IF v = U32Zero THEN U32Max ELSE v

NegotiateFrameMax(own, peer) ==
  LET v == IF peer # U32Zero /\ (own = U32Zero \/ U32Less(peer, own)) THEN peer ELSE own
  IN IF v = U32Zero THEN U32Max ELSE v

\* OnTune without the Connection.Open that follows TuneOk
OnTuneNoOpen(t, cfg, creds, vh) ==
  LET new == [heartbeat   |-> NegotiateHeartbeat(cfg.heartbeat, t.heartbeat),
              channel_max |-> NegotiateChannelMax(cfg.channel_max, t.channel_max),
              frame_max   |-> NegotiateFrameMax(cfg.frame_max, t.frame_max)]
      tune_ok == TuneOk(new.channel_max, new.frame_max, new.heartbeat)
  IN GlobalResult(Connecting("SentOpen"), new, creds, <<Method(0, tune_ok)>>)

\* SentStartOk, Connection.Tune received
OnTune(t, cfg, creds, vh) ==
  LET new == [heartbeat   |-> NegotiateHeartbeat(cfg.heartbeat, t.heartbeat),
              channel_max |-> NegotiateChannelMax(cfg.channel_max, t.channel_max),
              frame_max   |-> NegotiateFrameMax(cfg.frame_max, t.frame_max)]
      tune_ok == TuneOk(new.channel_max, new.frame_max, new.heartbeat)
  IN GlobalResult(Connecting("SentOpen"), new, creds,
                  <<Method(0, tune_ok), Method(0, Open(vh))>>)

\* handle_global_method that ignores an unexpected method while it waits for Tune
HandleGlobalMethodLenient(st, cfg, creds, vh, c) ==
  CASE st.tag \in {"Initial", "Closed", "Error"} -> GlobalResult(StError, cfg, creds, <<>>)
    [] st.tag = "Connecting" ->
         CASE st.sub.tag = "SentProtocolHeader" ->
                IF c.name = "Start" THEN OnStart(st.sub.options, cfg, creds)
                ELSE GlobalResult(StError, cfg, creds, <<>>)
           [] st.sub.tag = "SentStartOk" ->
                IF c.name = "Tune" THEN OnTune(c, cfg, creds, vh)
                ELSE GlobalResult(st, cfg, creds, <<>>)
           [] st.sub.tag = "SentOpen" ->
                IF c.name = "OpenOk" THEN GlobalResult(StConnected, cfg, creds, <<>>)
                ELSE GlobalResult(StError, cfg, creds, <<>>)
           [] st.sub.tag = "Error" -> GlobalResult(st, cfg, creds, <<>>)
           [] OTHER -> GlobalResult(StError, cfg, creds, <<>>)
    [] st.tag \in {"Connected", "Closing"} -> GlobalResult(st, cfg, creds, <<>>)

\* handle_global_method that answers a Connection.Tune after the handshake as well
HandleGlobalMethodRetunes(st, cfg, creds, vh, c) ==
  CASE st.tag \in {"Initial", "Closed", "Error"} -> GlobalResult(StError, cfg, creds, <<>>)
    [] st.tag = "Connecting" ->
         CASE st.sub.tag = "SentProtocolHeader" ->
                IF c.name = "Start" THEN OnStart(st.sub.options, cfg, creds)
                ELSE GlobalResult(StError, cfg, creds, <<>>)
           [] st.sub.tag = "SentStartOk" ->
                IF c.name = "Tune" THEN OnTune(c, cfg, creds, vh)
                ELSE GlobalResult(StError, cfg, creds, <<>>)
           [] st.sub.tag = "SentOpen" ->
                IF c.name = "OpenOk" THEN GlobalResult(StConnected, cfg, creds, <<>>)
                ELSE GlobalResult(StError, cfg, creds, <<>>)
           [] st.sub.tag = "Error" -> GlobalResult(st, cfg, creds, <<>>)
           [] OTHER -> GlobalResult(StError, cfg, creds, <<>>)
    [] st.tag \in {"Connected", "Closing"} ->
         IF c.name = "Tune" THEN OnTune(c, cfg, creds, vh)
         ELSE GlobalResult(st, cfg, creds, <<>>)

\* handle_global_method that answers the server's Connection.Close with CloseOk and
\* closes the connection
HandleGlobalMethodCloses(st, cfg, creds, vh, c) ==
  CASE st.tag \in {"Initial", "Closed", "Error"} -> GlobalResult(StError, cfg, creds, <<>>)
    [] st.tag = "Connecting" ->
         CASE st.sub.tag = "SentProtocolHeader" ->
                IF c.name = "Start" THEN OnStart(st.sub.options, cfg, creds)
                ELSE GlobalResult(StError, cfg, creds, <<>>)
           [] st.sub.tag = "SentStartOk" ->
                IF c.name = "Tune" THEN OnTune(c, cfg, creds, vh)
                ELSE GlobalResult(StError, cfg, creds, <<>>)
           [] st.sub.tag = "SentOpen" ->
                IF c.name = "OpenOk" THEN GlobalResult(StConnected, cfg, creds, <<>>)
                ELSE GlobalResult(StError, cfg, creds, <<>>)
           [] st.sub.tag = "Error" -> GlobalResult(st, cfg, creds, <<>>)
           [] OTHER -> GlobalResult(StError, cfg, creds, <<>>)
    [] st.tag \in {"Connected", "Closing"} ->
         IF c.name = "Close" THEN GlobalResult(StClosed, cfg, creds, <<Method(0, CloseOk)>>)
         ELSE GlobalResult(st, cfg, creds, <<>>)

HandleGlobalMethodOf(st, cfg, creds, vh, c) ==
  CASE st.tag \in {"Initial", "Closed", "Error"} -> GlobalResult(StError, cfg, creds, <<>>)
    [] st.tag = "Connecting" ->
         CASE st.sub.tag = "SentProtocolHeader" ->
                IF c.name = "Start" THEN OnStart(st.sub.options, cfg, creds)
                ELSE GlobalResult(StError, cfg, creds, <<>>)
           [] st.sub.tag = "SentStartOk" ->
                IF c.name = "Tune" THEN OnTune(c, cfg, creds, vh)
                ELSE GlobalResult(StError, cfg, creds, <<>>)
           [] st.sub.tag = "SentOpen" ->
                IF c.name = "OpenOk" THEN GlobalResult(StConnected, cfg, creds, <<>>)
                ELSE GlobalResult(StError, cfg, creds, <<>>)
           [] st.sub.tag = "Error" -> GlobalResult(st, cfg, creds, <<>>)
           [] OTHER -> GlobalResult(StError, cfg, creds, <<>>)
    [] st.tag \in {"Connected", "Closing"} -> GlobalResult(st, cfg, creds, <<>>)

(* Connection::handle_frame *)

FrameResult(ok, g, chs, dl) ==
  [ok |-> ok, state |-> g.state, configuration |-> g.configuration,
   credentials |-> g.credentials, out |-> g.out, channels |-> chs, deliveries |-> dl]

FromChannels(st, cfg, creds, r) ==
  FrameResult(r.ok, GlobalResult(st, cfg, creds, <<>>), r.channels, r.deliveries)

\* handle_frame that drops the body frames instead of handing them to the channel
HandleFrameBodyDropped(st, cfg, creds, vh, chs, dl, f) ==
  CASE f.type = "ProtocolHeader" ->
         FrameResult(TRUE, GlobalResult(StError, cfg, creds, <<>>), chs, dl)
    [] f.type = "Method" ->
         IF f.ch = 0
         THEN FrameResult(TRUE, HandleGlobalMethodOf(st, cfg, creds, vh, f.m), chs, dl)
         ELSE FromChannels(st, cfg, creds, ReceiveMethod(chs, dl, f.ch, f.m))
    [] f.type = "Header" ->
         FromChannels(st, cfg, creds, HandleContentHeaderFrame(chs, dl, f.ch, f.body_size))
    [] OTHER ->
         FrameResult(TRUE, GlobalResult(st, cfg, creds, <<>>), chs, dl)

HandleFrameOf(st, cfg, creds, vh, chs, dl, f) ==
  CASE f.type = "ProtocolHeader" ->
         FrameResult(TRUE, GlobalResult(StError, cfg, creds, <<>>), chs, dl)
    [] f.type = "Method" ->
         IF f.ch = 0
         THEN FrameResult(TRUE, HandleGlobalMethodOf(st, cfg, creds, vh, f.m), chs, dl)
         ELSE FromChannels(st, cfg, creds, ReceiveMethod(chs, dl, f.ch, f.m))
    [] f.type = "Heartbeat" ->
         FrameResult(TRUE, GlobalResult(st, cfg, creds, <<>>), chs, dl)
    [] f.type = "Header" ->
         FromChannels(st, cfg, creds, HandleContentHeaderFrame(chs, dl, f.ch, f.body_size))
    [] f.type = "Body" ->
         FromChannels(st, cfg, creds, HandleBodyFrame(chs, dl, f.ch, f.payload))

----------------------------------------------------------------------------
(* Inputs *)

PropertiesSet == {DefaultProperties, NamedProperties}

StartMethods == {Start(<<"PLAIN", "AMQPLAIN">>, <<"en_US">>), Start(<<"EXTERNAL">>, <<"fr_FR">>)}

\* the server's Tune: nothing to say (all 0), or the limits of a RabbitMQ broker
TuneArgs == {Tune(0, U32Zero, 0), Tune(2047, U32(2, 0), 60)}

GlobalMethods == StartMethods \cup TuneArgs \cup {OpenOk, Close, CloseOk}

\* channel 1 is the channel the model opens, channel 2 is never opened
ChannelFrames == {Method(1, BasicAck), Method(2, BasicAck)}

InFrames ==
  {ProtocolHeader, Heartbeat(0)} \cup {Method(0, c) : c \in GlobalMethods} \cup ChannelFrames

ParseInputs == {Incomplete, Garbage} \cup {Complete(f) : f \in InFrames}

\* what the server sends in a handshake that goes well, and a heartbeat
ServerFrames ==
  {Method(0, Start(<<"PLAIN", "AMQPLAIN">>, <<"en_US">>)), Method(0, Tune(2047, U32(2, 0), 60)),
   Method(0, OpenOk), Heartbeat(0)}

BufSizes == {0, 8, 4096}

PriorityFrames == {Heartbeat(0)}

\* the frames a channel's producer sends next: a method or a body fragment
NumChannelSent == Cardinality({i \in 1..Len(sent) : FrameChannel(sent[i]) # 0})
ProducerFrames ==
  LET n == NumChannelSent + 1
  IN {Method(1, Publish(n, 1)), Method(1, Publish(n, 300)), Body(1, <<n>>)}

----------------------------------------------------------------------------
(* Confirmation<T> and ConfirmationFuture<T> *)

\* the slot of the confirmation: Option<Result<T, Error>>
NoResult == [some |-> FALSE]
Resolved(r) == [some |-> TRUE, v |-> r]
Results == {"reply", "error"}

\* the notifiers: Box<dyn NotifyReady>; Watcher(waker) wakes the task of the waker
Subscriber(i) == [kind |-> "subscriber", id |-> i]
Watcher(waker) == [kind |-> "watcher", id |-> waker]

\* Pending { subscribers, value } or Resolved(value); notifying are the subscribers
\* a resolve took out of the list, which it notifies after it released the slot
Conf(value, subscribers, notifying) ==
  [value |-> value, subscribers |-> subscribers, notifying |-> notifying]

\* subscribe after resolution that queues the notifier like any other
SubscribeQueuesAlways(c, notifier) ==
  [confirmation |-> Conf(c.value, Append(c.subscribers, notifier), c.notifying),
   notify_now |-> FALSE]

\* Confirmation::subscribe: notify at once when already resolved
SubscribeOf(c, notifier) ==
  IF c.value.some
  THEN [confirmation |-> c, notify_now |-> TRUE]
  ELSE [confirmation |-> Conf(c.value, Append(c.subscribers, notifier), c.notifying),
        notify_now |-> FALSE]

\* Confirmation::try_wait: a read that does not block
TryWaitOf(c) == c.value

\* Confirmation::resolve: once; a second resolution is refused
ResolveOf(c, r) ==
  IF c.value.some
  THEN [ok |-> FALSE, confirmation |-> c]
  ELSE [ok |-> TRUE, confirmation |-> Conf(Resolved(r), <<>>, c.subscribers)]

\* ConfirmationFuture.inner: a live confirmation, or the error it was born with
Live        == [kind |-> "Ok"]
BornInError == [kind |-> "Err", err |-> Resolved("error")]
ErrorTaken  == [kind |-> "Err", err |-> NoResult]

\* try_poll that marks the future subscribed without subscribing to the confirmation
TryPollForgetsToSubscribe(is_subscribed, c, waker) ==
  [confirmation |-> c, notify_now |-> FALSE, subscribed |-> TRUE]

\* try_poll, Ok(confirmation): subscribe the waker of the first poll
TryPollSubscribe(is_subscribed, c, waker) ==
  IF ~is_subscribed
  THEN LET sub == SubscribeOf(c, Watcher(waker))
       IN [confirmation |-> sub.confirmation, notify_now |-> sub.notify_now,
           subscribed |-> TRUE]
  ELSE [confirmation |-> c, notify_now |-> FALSE, subscribed |-> is_subscribed]

\* try_poll, Ok(confirmation): try_wait().map(Ok).map(Poll::Ready).unwrap_or(Poll::Pending)
TryPollResult(c) ==
  LET r == TryWaitOf(c)
  IN IF r.some THEN [poll |-> "Ready", val |-> r.v] ELSE [poll |-> "Pending", val |-> "none"]

\* the history of notifications: a notifier registers with the count 0
NoNotifier == [n \in {} |-> 0]
Register(nf, n) == IF n \in DOMAIN nf THEN nf ELSE [m \in DOMAIN nf \cup {n} |-> IF m = n THEN 0 ELSE nf[m]]
Notification(nf, n) == [m \in DOMAIN nf \cup {n} |-> IF m = n THEN (IF n \in DOMAIN nf THEN nf[n] + 1 ELSE 1) ELSE nf[m]]

IdleTask == [pc |-> "idle", polls |-> 0, last |-> "none", woken |-> FALSE]

\* a confirmation nobody subscribed to yet and a future nobody polled yet
FreshConfirmation ==
  /\ confirmation = Conf(NoResult, <<>>, <<>>)
  /\ notified = NoNotifier
  /\ subscribed = FALSE
  /\ task = IdleTask

\* the operations of the connection leave the confirmation alone
NoFutureStep == UNCHANGED fvars

----------------------------------------------------------------------------
(* The operations *)

\* pre is the connection state the operation was called in
Ret(op, arg, kind, val) ==
  [op |-> op, arg |-> arg, kind |-> kind, val |-> val, pre |-> state]

Init ==
  /\ state = StInitial
  /\ configuration = DefaultConfiguration
  /\ vhost = <<"/">>
  /\ credentials = NoCredentials
  /\ priority_frames = <<>>
  /\ frame_receiver = <<>>
  /\ channels = NoChannels
  /\ deliveries = <<>>
  /\ sent = <<>>
  /\ written = <<>>
  /\ pushed = 0
  /\ ret = [op |-> "new", arg |-> "none", kind |-> "Ok", val |-> "none", pre |-> StInitial]
  /\ FreshConfirmation /\ inner = Live

SetCredentials(c) ==
  /\ credentials' = Some(c)
  /\ ret' = Ret("set_credentials", c, "Ok", "none")
  /\ UNCHANGED <<state, configuration, vhost, priority_frames, frame_receiver, channels,
                 deliveries, sent, written, pushed>>

SetVhost(v) ==
  /\ vhost' = v
  /\ ret' = Ret("set_vhost", v, "Ok", "none")
  /\ UNCHANGED <<state, configuration, credentials, priority_frames, frame_receiver,
                 channels, deliveries, sent, written, pushed>>

\* Connect without the check of the state: it starts a handshake from any state
ConnectNoCheck(options) ==
  /\ frame_receiver' = Append(frame_receiver, ProtocolHeader)
  /\ sent' = Append(sent, ProtocolHeader)
  /\ state' = SentProtocolHeader(options)
  /\ ret' = Ret("connect", options, "Ok", SentProtocolHeader(options))
  /\ UNCHANGED <<configuration, vhost, credentials, priority_frames, channels, deliveries,
                 written, pushed>>

\* Connect that sends the protocol header before it looks at the state
ConnectSendsFirst(options) ==
  /\ frame_receiver' = Append(frame_receiver, ProtocolHeader)
  /\ sent' = Append(sent, ProtocolHeader)
  /\ IF state # StInitial
     THEN /\ state' = StError
          /\ ret' = Ret("connect", options, "Other", "invalid state")
     ELSE /\ state' = SentProtocolHeader(options)
          /\ ret' = Ret("connect", options, "Ok", SentProtocolHeader(options))
  /\ UNCHANGED <<configuration, vhost, credentials, priority_frames, channels, deliveries,
                 written, pushed>>

Connect(options) ==
  /\ IF state # StInitial
     THEN /\ state' = StError
          /\ ret' = Ret("connect", options, "Other", "invalid state")
          /\ UNCHANGED <<frame_receiver, sent>>
     ELSE /\ frame_receiver' = Append(frame_receiver, ProtocolHeader)
          /\ sent' = Append(sent, ProtocolHeader)
          /\ state' = SentProtocolHeader(options)
          /\ ret' = Ret("connect", options, "Ok", SentProtocolHeader(options))
  /\ UNCHANGED <<configuration, vhost, credentials, priority_frames, channels, deliveries,
                 written, pushed>>

NextFrame ==
  LET n == NextFrameOf(priority_frames, frame_receiver)
  IN /\ priority_frames' = n.priority
     /\ frame_receiver' = n.receiver
     /\ ret' = IF n.some THEN Ret("next_frame", "none", "Some", n.frame)
               ELSE Ret("next_frame", "none", "None", "none")
     /\ UNCHANGED <<state, configuration, vhost, credentials, channels, deliveries, sent,
                    written, pushed>>

Serialize(buf) ==
  LET n   == NextFrameOf(priority_frames, frame_receiver)
      arg == [buf |-> buf, pending |-> Len(priority_frames) + Len(frame_receiver),
              frame |-> IF n.some THEN n.frame ELSE NoFrame]
      g   == GenFrame(buf, n.frame)
  IN /\ frame_receiver' = n.receiver
     /\ CASE ~n.some ->
               /\ ret' = Ret("serialize", arg, "WouldBlock", [msg |-> "no new message"])
               /\ UNCHANGED <<state, priority_frames, written>>
          [] n.some /\ g.ok ->
               /\ written' = Append(written, n.frame)
               /\ priority_frames' = n.priority
               /\ ret' = Ret("serialize", arg, "Ok", [sz |-> g.sz, state |-> state])
               /\ UNCHANGED state
          [] n.some /\ ~g.ok /\ g.err = "BufferTooSmall" ->
               /\ state' = StError
               /\ priority_frames' = PushBack(n.priority, n.frame)
               /\ ret' = Ret("serialize", arg, "InvalidData",
                             [msg |-> "send buffer too small", frame |-> n.frame])
               /\ UNCHANGED written
          [] n.some /\ ~g.ok /\ g.err # "BufferTooSmall" ->
               /\ state' = StError
               /\ priority_frames' = n.priority
               /\ ret' = Ret("serialize", arg, "InvalidData",
                             [msg |-> "could not generate", frame |-> n.frame])
               /\ UNCHANGED written
     /\ UNCHANGED <<configuration, vhost, credentials, channels, deliveries, sent, pushed>>

\* the effects of handle_frame on the connection, whatever it returns
ApplyFrame(h) ==
  /\ configuration' = h.configuration
  /\ credentials' = h.credentials
  /\ frame_receiver' = frame_receiver \o h.out
  /\ sent' = sent \o h.out
  /\ channels' = h.channels
  /\ deliveries' = h.deliveries

HandleFrame(f) ==
  LET h == HandleFrameOf(state, configuration, credentials, vhost, channels, deliveries, f)
  IN /\ Len(h.deliveries) <= MaxDeliveries
     /\ ApplyFrame(h)
     /\ state' = h.state
     /\ ret' = IF h.ok THEN Ret("handle_frame", f, "Ok", "none")
               ELSE Ret("handle_frame", f, "Err", "channel error")
     /\ UNCHANGED <<vhost, priority_frames, written, pushed>>

HandleGlobalMethod(c) ==
  LET g == HandleGlobalMethodOf(state, configuration, credentials, vhost, c)
  IN /\ ApplyFrame(FrameResult(TRUE, g, channels, deliveries))
     /\ state' = g.state
     /\ ret' = Ret("handle_global_method", c, "Ok", "none")
     /\ UNCHANGED <<vhost, priority_frames, written, pushed>>

\* Parse that treats input that is not a whole frame yet as a parse error
ParseIncompleteFatal(data) ==
  LET p == ParseFrame(data)
  IN IF p.ok
     THEN LET h == HandleFrameOf(state, configuration, credentials, vhost, channels,
                                 deliveries, p.frame)
          IN /\ Len(h.deliveries) <= MaxDeliveries
             /\ ApplyFrame(h)
             /\ IF ~h.ok
                THEN /\ state' = StError
                     /\ ret' = Ret("parse", data, "Other", "failed to handle frame")
                ELSE /\ state' = h.state
                     /\ ret' = Ret("parse", data, "Ok",
                                   [consumed |-> p.consumed, state |-> h.state])
             /\ UNCHANGED <<vhost, priority_frames, written, pushed>>
     ELSE /\ state' = StError
          /\ ret' = Ret("parse", data, "Other", "parse error")
          /\ UNCHANGED <<configuration, vhost, credentials, priority_frames, frame_receiver,
                         channels, deliveries, sent, written, pushed>>

Parse(data) ==
  LET p == ParseFrame(data)
  IN IF p.ok
     THEN LET h == HandleFrameOf(state, configuration, credentials, vhost, channels,
                                 deliveries, p.frame)
          IN /\ Len(h.deliveries) <= MaxDeliveries
             /\ ApplyFrame(h)
             /\ IF ~h.ok
                THEN /\ state' = StError
                     /\ ret' = Ret("parse", data, "Other", "failed to handle frame")
                ELSE /\ state' = h.state
                     /\ ret' = Ret("parse", data, "Ok",
                                   [consumed |-> p.consumed, state |-> h.state])
             /\ UNCHANGED <<vhost, priority_frames, written, pushed>>
     ELSE /\ IF p.incomplete
             THEN /\ ret' = Ret("parse", data, "Ok", [consumed |-> 0, state |-> state])
                  /\ UNCHANGED state
             ELSE /\ state' = StError
                  /\ ret' = Ret("parse", data, "Other", "parse error")
          /\ UNCHANGED <<configuration, vhost, credentials, priority_frames, frame_receiver,
                         channels, deliveries, sent, written, pushed>>

SendPreemptiveFrame(frame) ==
  /\ pushed < MaxPriority
  /\ pushed' = pushed + 1
  /\ priority_frames' = PushFront(priority_frames, frame)
  /\ ret' = Ret("send_preemptive_frame", frame, "Ok", "none")
  /\ UNCHANGED <<state, configuration, vhost, credentials, frame_receiver, channels,
                 deliveries, sent, written>>

RequeueFrame(frame) ==
  /\ pushed < MaxPriority
  /\ pushed' = pushed + 1
  /\ priority_frames' = PushBack(priority_frames, frame)
  /\ ret' = Ret("requeue_frame", frame, "Ok", "none")
  /\ UNCHANGED <<state, configuration, vhost, credentials, frame_receiver, channels,
                 deliveries, sent, written>>

HasPendingFrames ==
  /\ ret' = Ret("has_pending_frames", "none", "Ok",
                HasPendingFramesOf(priority_frames, frame_receiver))
  /\ UNCHANGED <<state, configuration, vhost, credentials, priority_frames, frame_receiver,
                 channels, deliveries, sent, written, pushed>>

\* Channels::create, then the channel is opened (status Connected)
ChannelCreate ==
  /\ 1 \notin DOMAIN channels
  /\ IF configuration.channel_max >= 1
     THEN /\ channels' = SetChannel(channels, 1, Channel(ChConnected, <<>>))
          /\ ret' = Ret("channels.create", "none", "Ok", 1)
     ELSE /\ ret' = Ret("channels.create", "none", "Err", "NoAvailableChannel")
          /\ UNCHANGED channels
  /\ UNCHANGED <<state, configuration, vhost, credentials, priority_frames, frame_receiver,
                 deliveries, sent, written, pushed>>

\* a channel's producer puts a frame on the shared channel through its Sender
ChannelSend(frame) ==
  /\ 1 \in DOMAIN channels
  /\ NumChannelSent < MaxEnqueued
  /\ frame_receiver' = Append(frame_receiver, frame)
  /\ sent' = Append(sent, frame)
  /\ ret' = Ret("channel.send_frame", frame, "Ok", "none")
  /\ UNCHANGED <<state, configuration, vhost, credentials, priority_frames, channels,
                 deliveries, written, pushed>>

\* Confirmation::subscribe, called with a notifier of its own by some thread
Subscribe(notifier) ==
  LET sub == SubscribeOf(confirmation, notifier)
  IN /\ notifier \notin DOMAIN notified
     /\ confirmation' = sub.confirmation
     /\ notified' = IF sub.notify_now THEN Notification(notified, notifier)
                    ELSE Register(notified, notifier)
     /\ ret' = Ret("subscribe", notifier, "Ok", "none")
     /\ UNCHANGED <<cvars, inner, subscribed, task>>

\* Confirmation::try_wait, called by some thread
TryWait ==
  LET r == TryWaitOf(confirmation)
  IN /\ ret' = IF r.some THEN Ret("try_wait", "none", "Some", r.v)
                ELSE Ret("try_wait", "none", "None", "none")
     /\ UNCHANGED <<cvars, fvars>>

\* Confirmation::resolve, its part under the lock of the slot
Resolve(r) ==
  LET res == ResolveOf(confirmation, r)
  IN /\ confirmation' = res.confirmation
     /\ ret' = IF res.ok THEN Ret("resolve", r, "Ok", "none")
                ELSE Ret("resolve", r, "Err", "already resolved")
     /\ UNCHANGED <<cvars, notified, inner, subscribed, task>>

\* Confirmation::resolve, after the lock: the next subscriber it took is notified;
\* Watcher::notify is waker.wake_by_ref()
Notify ==
  /\ confirmation.notifying # <<>>
  /\ LET n == Head(confirmation.notifying)
     IN /\ confirmation' = Conf(confirmation.value, confirmation.subscribers,
                                Tail(confirmation.notifying))
        /\ notified' = Notification(notified, n)
        /\ task' = IF n.kind = "watcher" THEN [task EXCEPT !.woken = TRUE] ELSE task
        /\ ret' = Ret("notify", n, "Ok", "none")
  /\ UNCHANGED <<cvars, inner, subscribed>>

\* ConfirmationFuture::try_poll up to the subscription; on Err(err) the whole poll
TryPoll ==
  /\ task.pc = "idle"
  /\ LET waker == task.polls + 1
         polled == [task EXCEPT !.polls = waker, !.woken = FALSE]
     IN IF inner.kind = "Err"
        THEN /\ IF inner.err.some
                THEN /\ ret' = Ret("try_poll", waker, "ReadyErr", inner.err.v)
                     /\ task' = [polled EXCEPT !.last = "Ready"]
                ELSE /\ ret' = Ret("try_poll", waker, "Panic", "polled twice")
                     /\ task' = [polled EXCEPT !.last = "Panic"]
             /\ inner' = ErrorTaken
             /\ UNCHANGED <<confirmation, notified, subscribed>>
        ELSE LET p == TryPollSubscribe(subscribed, confirmation, waker)
             IN /\ confirmation' = p.confirmation
                /\ subscribed' = p.subscribed
                /\ notified' =
                     IF subscribed THEN notified
                     ELSE IF p.notify_now THEN Notification(notified, Watcher(waker))
                     ELSE IF Watcher(waker) \in
                               {p.confirmation.subscribers[i] :
                                  i \in 1..Len(p.confirmation.subscribers)}
                     THEN Register(notified, Watcher(waker))
                     ELSE notified
                /\ task' = [polled EXCEPT !.pc = "try_wait", !.woken = p.notify_now]
                /\ ret' = Ret("try_poll.subscribe", waker, "Ok", "none")
                /\ UNCHANGED inner
  /\ UNCHANGED cvars

\* a poll the executor makes on its own, or the first one
Poll ==
  /\ ~task.woken
  /\ task.polls < MaxPolls
  /\ TryPoll

\* the poll the executor makes because the waker was woken
Repoll ==
  /\ task.woken
  /\ task.last # "Ready"
  /\ TryPoll

\* ConfirmationFuture::try_poll, its last line: the slot is read
TryPollTryWait ==
  /\ task.pc = "try_wait"
  /\ LET r == TryPollResult(confirmation)
     IN /\ task' = [task EXCEPT !.pc = "idle", !.last = r.poll]
        /\ ret' = Ret("try_poll", task.polls, r.poll, r.val)
  /\ UNCHANGED <<cvars, confirmation, notified, inner, subscribed>>

\* the handshake and the incoming side
Next ==
  \/ \E c \in {UserCredentials} : SetCredentials(c) /\ NoFutureStep
  \/ \E v \in VhostSet : SetVhost(v) /\ NoFutureStep
  \/ \E options \in PropertiesSet : Connect(options) /\ NoFutureStep
  \/ \E data \in ParseInputs : Parse(data) /\ NoFutureStep
  \/ \E f \in InFrames : HandleFrame(f) /\ NoFutureStep
  \/ \E c \in GlobalMethods : HandleGlobalMethod(c) /\ NoFutureStep
  \/ ChannelCreate /\ NoFutureStep

Spec == Init /\ [][Next]_vars

\* the outgoing side, fed by a handshake and by the producer of a channel
NextOut ==
  \/ Connect(DefaultProperties) /\ NoFutureStep
  \/ \E f \in ServerFrames : HandleFrame(f) /\ NoFutureStep
  \/ \E data \in {Incomplete, Garbage} : Parse(data) /\ NoFutureStep
  \/ \E buf \in BufSizes : Serialize(buf) /\ NoFutureStep
  \/ \E frame \in PriorityFrames : SendPreemptiveFrame(frame) /\ NoFutureStep
  \/ HasPendingFrames /\ NoFutureStep
  \/ ChannelCreate /\ NoFutureStep
  \/ \E frame \in ProducerFrames : ChannelSend(frame) /\ NoFutureStep

SpecOut == Init /\ [][NextOut]_vars

\* a connected connection with an open channel, set up as the tests set it up
InitConnected ==
  /\ state = StConnected
  /\ configuration = [channel_max |-> 2047, frame_max |-> U32Zero, heartbeat |-> 0]
  /\ vhost = <<"/">>
  /\ credentials = NoCredentials
  /\ priority_frames = <<>>
  /\ frame_receiver = <<>>
  /\ channels = SetChannel(NoChannels, 1, Channel(ChConnected, <<>>))
  /\ deliveries = <<>>
  /\ sent = <<>>
  /\ written = <<>>
  /\ pushed = 0
  /\ ret = [op |-> "new", arg |-> "none", kind |-> "Ok", val |-> "none", pre |-> StInitial]
  /\ FreshConfirmation /\ inner = Live

\* the two outbound queues and every operation on them
NextQueue ==
  \/ NextFrame /\ NoFutureStep
  \/ \E buf \in BufSizes : Serialize(buf) /\ NoFutureStep
  \/ \E frame \in PriorityFrames : SendPreemptiveFrame(frame) /\ NoFutureStep
  \/ \E frame \in PriorityFrames : RequeueFrame(frame) /\ NoFutureStep
  \/ HasPendingFrames /\ NoFutureStep
  \/ \E frame \in ProducerFrames : ChannelSend(frame) /\ NoFutureStep

SpecQueue == InitConnected /\ [][NextQueue]_vars

\* the handshake for every client configuration and every server Tune
ChannelMaxVals == {0, 2047, 4095}
FrameMaxVals   == {U32Zero, U32(0, 4096), U32(2, 0)}
HeartbeatVals  == {0, 30, 60}

ClientConfigurations ==
  {[channel_max |-> cm, frame_max |-> fm, heartbeat |-> hb] :
     cm \in ChannelMaxVals, fm \in FrameMaxVals, hb \in HeartbeatVals}

AllTuneArgs ==
  {Tune(cm, fm, hb) : cm \in ChannelMaxVals, fm \in FrameMaxVals, hb \in HeartbeatVals}

\* Connection::new(), then the setters of the configuration
InitTune ==
  /\ state = StInitial
  /\ configuration \in ClientConfigurations
  /\ vhost = <<"/">>
  /\ credentials = NoCredentials
  /\ priority_frames = <<>>
  /\ frame_receiver = <<>>
  /\ channels = NoChannels
  /\ deliveries = <<>>
  /\ sent = <<>>
  /\ written = <<>>
  /\ pushed = 0
  /\ ret = [op |-> "new", arg |-> "none", kind |-> "Ok", val |-> "none", pre |-> StInitial]
  /\ FreshConfirmation /\ inner = Live

NextTune ==
  \/ Connect(DefaultProperties) /\ NoFutureStep
  \/ \E c \in StartMethods \cup AllTuneArgs \cup {OpenOk} : HandleFrame(Method(0, c)) /\ NoFutureStep

SpecTune == InitTune /\ [][NextTune]_vars

\* the state field is public: a caller may start from any state
ConnectionStates ==
  {StInitial, StConnected, StClosed, StError}
    \cup {Connecting(sub) : sub \in ConnectingSubStates}
    \cup {SentProtocolHeader(options) : options \in PropertiesSet}
    \cup {Closing(sub) : sub \in ClosingSubStates}

InitAny ==
  /\ state \in ConnectionStates
  /\ configuration = DefaultConfiguration
  /\ vhost = <<"/">>
  /\ credentials = NoCredentials
  /\ priority_frames = <<>>
  /\ frame_receiver = <<>>
  /\ channels = NoChannels
  /\ deliveries = <<>>
  /\ sent = <<>>
  /\ written = <<>>
  /\ pushed = 0
  /\ ret = [op |-> "new", arg |-> "none", kind |-> "Ok", val |-> "none", pre |-> StInitial]
  /\ FreshConfirmation /\ inner = Live

NextAny ==
  \/ \E options \in PropertiesSet : Connect(options) /\ NoFutureStep
  \/ \E data \in ParseInputs : Parse(data) /\ NoFutureStep
  \/ \E f \in InFrames : HandleFrame(f) /\ NoFutureStep
  \/ \E c \in GlobalMethods : HandleGlobalMethod(c) /\ NoFutureStep
  \/ \E buf \in BufSizes : Serialize(buf) /\ NoFutureStep

SpecAny == InitAny /\ [][NextAny]_vars

\* the frames of a consumer's deliveries on channel 1, and frames that do not belong there
ConsumerTag == <<"consumer-tag">>
QueueName   == <<"consumed">>
Payloads ==
  {<<"a">>, <<"b">>, <<"a", "b">>, <<"b", "c">>, <<"a", "b", "c">>, <<"a", "b", "c", "d">>}
BodySizes == {0, 2, 3}

ContentFrames ==
  {Method(1, Deliver(ConsumerTag, QueueName)), Method(1, BasicAck), Body(2, <<"a">>)}
    \cup {Header(1, n) : n \in BodySizes} \cup {Body(1, p) : p \in Payloads}

\* a connected connection receives the frames of its channels
NextContent ==
  \/ \E f \in ContentFrames : HandleFrame(f) /\ NoFutureStep
  \/ \E f \in ContentFrames : Parse(Complete(f)) /\ NoFutureStep

SpecContent == InitConnected /\ [][NextContent]_vars

\* a new connection, its confirmation live
InitConfirmation == Init

\* the threads that subscribe to, read and resolve a confirmation, and the polling task
NextConfirmation ==
  \/ \E i \in 1..MaxSubscribers : Subscribe(Subscriber(i))
  \/ TryWait
  \/ \E r \in Results : Resolve(r)
  \/ Notify
  \/ Poll
  \/ Repoll
  \/ TryPollTryWait

SpecConfirmation == InitConfirmation /\ [][NextConfirmation]_vars

\* a future made from a live confirmation or from one born in error
InitFuture ==
  /\ state = StInitial
  /\ configuration = DefaultConfiguration
  /\ vhost = <<"/">>
  /\ credentials = NoCredentials
  /\ priority_frames = <<>>
  /\ frame_receiver = <<>>
  /\ channels = NoChannels
  /\ deliveries = <<>>
  /\ sent = <<>>
  /\ written = <<>>
  /\ pushed = 0
  /\ ret = [op |-> "from", arg |-> "none", kind |-> "Ok", val |-> "none", pre |-> StInitial]
  /\ FreshConfirmation
  /\ inner \in {Live, BornInError}

\* the task that polls the future and the thread that resolves the confirmation
NextFuture ==
  \/ Poll
  \/ Repoll
  \/ TryPollTryWait
  \/ \E r \in Results : Resolve(r)
  \/ Notify
  \/ TryWait

\* resolve runs to its end, and the executor polls a task that was woken and lets a
\* poll it started return
SpecFuture ==
  /\ InitFuture /\ [][NextFuture]_vars
  /\ WF_vars(Notify) /\ WF_vars(Repoll) /\ WF_vars(TryPollTryWait)

\* the life of a connection from Connection::new(): a handshake that can fail at any
\* step, a server that closes, a frame for a channel, and the outbound operations
HandshakeFrames ==
  {Method(0, Start(<<"PLAIN", "AMQPLAIN">>, <<"en_US">>)), Method(0, Tune(2047, U32(2, 0), 60)),
   Method(0, OpenOk)}

CloseFrames == {Method(0, Close), Method(0, CloseOk)}

LifecycleFrames == HandshakeFrames \cup CloseFrames

NextLifecycle ==
  \/ Connect(DefaultProperties) /\ NoFutureStep
  \/ \E data \in {Garbage} \cup {Complete(f) : f \in LifecycleFrames \cup {Method(1, BasicAck)}} :
       Parse(data) /\ NoFutureStep
  \/ \E f \in LifecycleFrames \cup {Heartbeat(0), ProtocolHeader, Method(1, BasicAck)} :
       HandleFrame(f) /\ NoFutureStep
  \/ \E f \in LifecycleFrames : HandleGlobalMethod(f.m) /\ NoFutureStep
  \/ \E buf \in BufSizes : Serialize(buf) /\ NoFutureStep
  \/ NextFrame /\ NoFutureStep
  \/ \E frame \in PriorityFrames : SendPreemptiveFrame(frame) /\ NoFutureStep
  \/ \E frame \in PriorityFrames : RequeueFrame(frame) /\ NoFutureStep

SpecLifecycle == Init /\ [][NextLifecycle]_vars

\* a buffer large enough for every frame of the producer and for a heartbeat
DrainBuf == 4096

\* a connected connection whose producer enqueues a bounded number of frames, while
\* serialize is called again and again with the large buffer
NextDrain ==
  \/ \E buf \in BufSizes : Serialize(buf) /\ NoFutureStep
  \/ HasPendingFrames /\ NoFutureStep
  \/ \E frame \in PriorityFrames : SendPreemptiveFrame(frame) /\ NoFutureStep
  \/ \E frame \in ProducerFrames : ChannelSend(frame) /\ NoFutureStep

SpecDrain ==
  /\ InitConnected /\ [][NextDrain]_vars
  /\ WF_vars(Serialize(DrainBuf) /\ NoFutureStep)

----------------------------------------------------------------------------
(* Properties *)

FrameName(f) == IF f.type = "Method" THEN f.m.name ELSE f.type
Names(frames) == [i \in 1..Len(frames) |-> FrameName(frames[i])]

NoMethod == [class |-> "none", name |-> "none"]

\* the channel 0 method the operation r fed to the connection, if it fed one
FedGlobal(r) ==
  CASE r.op = "handle_global_method" -> r.arg
    [] r.op = "handle_frame" /\ IsGlobal(r.arg) -> r.arg.m
    [] r.op = "parse" /\ r.arg.kind = "Complete" /\ IsGlobal(r.arg.frame) -> r.arg.frame.m
    [] OTHER -> NoMethod

Handshake == <<"ProtocolHeader", "StartOk", "TuneOk", "Open">>

\* C1: connect, then Start, Tune and OpenOk on channel 0, take the state from Initial
\* to SentProtocolHeader, SentStartOk, SentOpen and Connected, and put ProtocolHeader,
\* StartOk, TuneOk and Open on the outbound queue, one of each and nothing else.
C1_HappyHandshake ==
  /\ (ret.op = "connect" /\ ret.pre = StInitial)
       => /\ state = SentProtocolHeader(ret.arg)
          /\ Names(sent) = SubSeq(Handshake, 1, 1)
  /\ (FedGlobal(ret).name = "Start" /\ IsConnecting(ret.pre, "SentProtocolHeader"))
       => /\ state = Connecting("SentStartOk")
          /\ Names(sent) = SubSeq(Handshake, 1, 2)
  /\ (FedGlobal(ret).name = "Tune" /\ IsConnecting(ret.pre, "SentStartOk"))
       => /\ state = Connecting("SentOpen")
          /\ Names(sent) = Handshake
  /\ (FedGlobal(ret).name = "OpenOk" /\ IsConnecting(ret.pre, "SentOpen"))
       => /\ state = StConnected
          /\ Names(sent) = Handshake
  /\ frame_receiver = sent

C1_Witness ==
  /\ state = StConnected
  /\ ret.op = "handle_frame" /\ ret.arg = Method(0, OpenOk)
  /\ Names(frame_receiver) = Handshake

\* C2: connect succeeds only in state Initial, where it enqueues one ProtocolHeader and
\* moves to Connecting(SentProtocolHeader(properties)); in any other state it returns
\* an error and enqueues nothing.
C2_ConnectOnlyInitial ==
  [][ret'.op = "connect" =>
        IF state = StInitial
        THEN /\ ret'.kind = "Ok"
             /\ ret'.val = SentProtocolHeader(ret'.arg)
             /\ state' = SentProtocolHeader(ret'.arg)
             /\ frame_receiver' = Append(frame_receiver, ProtocolHeader)
             /\ priority_frames' = priority_frames
        ELSE /\ ret'.kind = "Other"
             /\ ret'.val = "invalid state"
             /\ frame_receiver' = frame_receiver
             /\ priority_frames' = priority_frames
             /\ sent' = sent]_vars

C2_Witness ==
  /\ ret.op = "connect" /\ ret.kind = "Other"
  /\ ret.pre = Connecting("SentStartOk")
  /\ frame_receiver # <<>>

\* the negotiation rule as the specification states it
Negotiated(own, peer) ==
  IF own = 0 THEN peer ELSE IF peer = 0 THEN own ELSE IF own < peer THEN own ELSE peer
Negotiated32(own, peer) ==
  IF own = U32Zero THEN peer ELSE IF peer = U32Zero THEN own
  ELSE IF U32Less(own, peer) THEN own ELSE peer

\* C3: after Tune is handled in SentStartOk each stored value is the other side's value if
\* one side is 0 and the minimum of the two otherwise, then channel_max 0 becomes 65535
\* and frame_max 0 becomes 4294967295; the TuneOk sent carries the stored values.
C3_TuneNegotiation ==
  [][(IsConnecting(state, "SentStartOk") /\ FedGlobal(ret').name = "Tune") =>
       LET t  == FedGlobal(ret')
           cm == Negotiated(configuration.channel_max, t.channel_max)
           fm == Negotiated32(configuration.frame_max, t.frame_max)
           hb == Negotiated(configuration.heartbeat, t.heartbeat)
       IN /\ configuration'.channel_max = (IF cm = 0 THEN 65535 ELSE cm)
          /\ configuration'.frame_max = (IF fm = U32Zero THEN U32(65535, 65535) ELSE fm)
          /\ configuration'.heartbeat = hb
          /\ sent' = sent \o <<Method(0, TuneOk(configuration'.channel_max,
                                                 configuration'.frame_max,
                                                 configuration'.heartbeat)),
                               Method(0, Open(vhost))>>
          /\ (configuration = DefaultConfiguration /\ t = Tune(0, U32Zero, 0))
               => configuration' = [channel_max |-> 65535, frame_max |-> U32(65535, 65535),
                                    heartbeat |-> 0]]_vars

\* both sides named limits, and the smaller one of each pair was stored
C3_Witness ==
  /\ IsConnecting(ret.pre, "SentStartOk") /\ IsConnecting(state, "SentOpen")
  /\ FedGlobal(ret) = Tune(4095, U32(0, 4096), 30)
  /\ configuration = [channel_max |-> 2047, frame_max |-> U32(0, 4096), heartbeat |-> 30]
  /\ sent[3] = Method(0, TuneOk(2047, U32(0, 4096), 30))

UnexpectedWhileConnecting(st, c) ==
  /\ st.tag = "Connecting"
  /\ st.sub.tag = "SentProtocolHeader" => c.name # "Start"
  /\ st.sub.tag = "SentStartOk" => c.name # "Tune"
  /\ st.sub.tag = "SentOpen" => c.name # "OpenOk"

Pending == priority_frames \o frame_receiver

\* C5: serialize with one frame pending and a buffer too small for it reports InvalidData
\* and writes nothing, the state becomes Error, the frame is requeued whole, and
\* a next_frame() that follows yields that frame.
C5_BufferTooSmall ==
  [][/\ (/\ ret'.op = "serialize"
         /\ Len(Pending) = 1
         /\ FrameSize(Pending[1]) > ret'.arg.buf
         /\ Generable(Pending[1]))
        => /\ ret'.kind = "InvalidData"
           /\ ret'.val = [msg |-> "send buffer too small", frame |-> Pending[1]]
           /\ written' = written
           /\ state' = StError
           /\ priority_frames' = <<Pending[1]>>
           /\ frame_receiver' = <<>>
     /\ (/\ ret.op = "serialize" /\ ret.kind = "InvalidData"
         /\ ret.val.msg = "send buffer too small" /\ ret.arg.pending = 1
         /\ ret'.op = "next_frame")
        => /\ ret'.kind = "Some"
           /\ ret'.val = ret.val.frame
           /\ priority_frames' = <<>>]_vars

\* the only frame of the connection did not fit the buffer, nothing was written, and
\* next_frame gave the frame back from the priority deque
C5_Witness ==
  /\ ret.op = "next_frame" /\ ret.kind = "Some"
  /\ state = StError
  /\ sent = <<ret.val>> /\ pushed = 0
  /\ written = <<>>
  /\ Pending = <<>>

\* C6: parse on incomplete input returns (0, state) and serialize with nothing pending
\* returns WouldBlock; both leave the state, the configuration, the credentials, the
\* priority deque and the shared queue as they were.
C6_NonFatalUnchanged ==
  [][((ret'.op = "parse" /\ ret'.arg = Incomplete)
        => /\ ret'.kind = "Ok"
           /\ ret'.val = [consumed |-> 0, state |-> state]
           /\ UNCHANGED <<state, configuration, credentials, priority_frames,
                          frame_receiver>>)
     /\ ((ret'.op = "serialize" /\ Pending = <<>>)
        => /\ ret'.kind = "WouldBlock"
           /\ UNCHANGED <<state, configuration, credentials, priority_frames,
                          frame_receiver>>)]_vars

C6_Witness ==
  /\ ret.op = "parse" /\ ret.arg = Incomplete
  /\ IsConnecting(state, "SentOpen")
  /\ Len(frame_receiver) = 3
  /\ written = <<ProtocolHeader>>

\* the frame an operation handled, if it handled one
FedFrame(r) ==
  CASE r.op = "handle_frame" -> r.arg
    [] r.op = "parse" /\ r.arg.kind = "Complete" -> r.arg.frame
    [] OTHER -> NoFrame

NotForAChannel(f) == f.type = "Heartbeat" \/ IsGlobal(f)

\* C7 as stated: once the state is Error or Closed, connect, parse of a complete frame,
\* handle_frame and serialize return an error instead of succeeding.
C7_Original ==
  (/\ ret.pre.tag \in {"Error", "Closed"}
   /\ ret.op = "connect" \/ ret.op = "serialize" \/ FedFrame(ret) # NoFrame)
    => ret.kind \notin {"Ok"}

\* C7, amended: once the state is Error or Closed it stays Error or Closed and connect
\* returns an "invalid state" error; handle_frame, parse and serialize do not look at the
\* state: a heartbeat or a channel 0 method is handled with Ok, and
\* serialize returns Ok when a pending frame fits the buffer, WouldBlock when none is pending.
C7_AfterError ==
  ret.pre.tag \in {"Error", "Closed"} =>
    /\ state = StError \/ (state = StClosed /\ ret.pre = StClosed)
    /\ ret.op = "connect"
         => ret.kind = "Other" /\ ret.val = "invalid state" /\ state = StError
    /\ (FedFrame(ret) # NoFrame /\ NotForAChannel(FedFrame(ret)))
         => ret.kind = "Ok"
    /\ ret.op = "serialize"
         => /\ ret.kind = "WouldBlock" <=> ret.arg.pending = 0
            /\ ret.kind = "Ok" =>
                 /\ written # <<>>
                 /\ ret.val = [sz |-> FrameSize(written[Len(written)]), state |-> ret.pre]
                 /\ ret.val.sz <= ret.arg.buf
            /\ (ret.arg.pending > 0 /\ Generable(ret.arg.frame)
                  /\ FrameSize(ret.arg.frame) <= ret.arg.buf) => ret.kind = "Ok"

\* in state Error, serialize wrote the pending protocol header and returned Ok
C7_Witness ==
  /\ ret.pre = StError /\ state = StError
  /\ ret.op = "serialize" /\ ret.kind = "Ok"
  /\ written = <<ProtocolHeader>>

\* the frames of a sequence that came through the shared queue, and where they stood in it
WasSent(f) == \E i \in 1..Len(sent) : sent[i] = f
SentIndex(f) == CHOOSE i \in 1..Len(sent) : sent[i] = f

\* C8: the frames put on the shared outbound queue are written by serialize in the order
\* they were enqueued, whatever the buffer sizes, the requeues after BufferTooSmall
\* and the preemptive frames; the frames still pending follow in that order too.
C8_OutboundOrder ==
  LET out == SelectSeq(written \o Pending, WasSent)
  IN /\ \A i, j \in 1..Len(out) : i < j => SentIndex(out[i]) < SentIndex(out[j])
     /\ \A i \in 1..Len(written) : WasSent(written[i]) \/ written[i] \in PriorityFrames

\* Open did not fit the buffer and waits in the priority deque, before the publish of
\* channel 1 in the shared queue; a heartbeat was written between StartOk and TuneOk
C8_Witness ==
  /\ Names(written) = <<"ProtocolHeader", "StartOk", "Heartbeat", "TuneOk">>
  /\ Names(priority_frames) = <<"Open">>
  /\ Names(frame_receiver) = <<"Publish">>
  /\ ret.op = "serialize" /\ ret.kind = "InvalidData"

\* the priority deque without its last frame
Front(pf) == SubSeq(pf, 1, Len(pf) - 1)

\* C9: next_frame takes from the shared queue only when the priority deque is empty;
\* send_preemptive_frame(f) puts f at the front of the deque and the next_frame that
\* follows returns f; requeue_frame(f) puts f at the back, and the next_frame that follows
\* returns f and restores the queues when the deque was empty before the requeue, while
\* it returns the old front and leaves f queued at the back when the deque was not empty.
C9_PriorityDiscipline ==
  [][/\ ret'.op = "next_frame" =>
           IF priority_frames # <<>>
           THEN /\ ret'.kind = "Some" /\ ret'.val = Head(priority_frames)
                /\ priority_frames' = Tail(priority_frames)
                /\ frame_receiver' = frame_receiver
           ELSE IF frame_receiver # <<>>
           THEN /\ ret'.kind = "Some" /\ ret'.val = Head(frame_receiver)
                /\ frame_receiver' = Tail(frame_receiver)
                /\ priority_frames' = <<>>
           ELSE /\ ret'.kind = "None"
                /\ UNCHANGED <<priority_frames, frame_receiver>>
     /\ ret'.op = "send_preemptive_frame" =>
           /\ priority_frames' = <<ret'.arg>> \o priority_frames
           /\ frame_receiver' = frame_receiver
     /\ (ret.op = "send_preemptive_frame" /\ ret'.op = "next_frame") =>
           /\ ret'.kind = "Some" /\ ret'.val = ret.arg
           /\ frame_receiver' = frame_receiver
     /\ ret'.op = "requeue_frame" =>
           /\ priority_frames' = priority_frames \o <<ret'.arg>>
           /\ frame_receiver' = frame_receiver
     /\ (ret.op = "requeue_frame" /\ ret'.op = "next_frame") =>
           LET before == Front(priority_frames)
           IN /\ ret'.kind = "Some"
              /\ frame_receiver' = frame_receiver
              /\ IF before = <<>>
                 THEN ret'.val = ret.arg /\ priority_frames' = before
                 ELSE /\ ret'.val = Head(before)
                      /\ priority_frames' = Tail(before) \o <<ret.arg>>
                      /\ Len(priority_frames') = Len(before)
                      /\ priority_frames'[Len(before)] = ret.arg]_vars

\* a heartbeat was requeued behind a frame that waits in the priority deque, and
\* next_frame returned that frame, not the heartbeat, with the shared queue untouched
C9_Witness ==
  /\ ret.op = "next_frame" /\ ret.kind = "Some"
  /\ ret.val \in {Method(1, Publish(1, 1)), Body(1, <<1>>)}
  /\ priority_frames = <<Heartbeat(0)>>
  /\ pushed = 1
  /\ Len(frame_receiver) = 1
  /\ written = <<>>

StartOkCount(frames) ==
  Cardinality({i \in 1..Len(frames) : FrameName(frames[i]) = "StartOk"})

\* the SASL PLAIN response of the default credentials, guest/guest
GuestResponse == <<"NUL", "g", "u", "e", "s", "t", "NUL", "g", "u", "e", "s", "t">>

\* C10: handling Connection.Start in SentProtocolHeader puts on the queue one StartOk whose
\* response is NUL username NUL password of the stored credentials (guest/guest when
\* none are stored) and empties the credentials slot in that step; no other step
\* of the handshake reads or changes the slot or emits a StartOk, so at most one StartOk
\* is ever emitted.
C10_CredentialsOnce ==
  [][/\ IF IsConnecting(state, "SentProtocolHeader") /\ FedGlobal(ret').name = "Start"
        THEN /\ credentials' = NoCredentials
             /\ Len(sent') = Len(sent) + 1
             /\ SubSeq(sent', 1, Len(sent)) = sent
             /\ FrameName(sent'[Len(sent')]) = "StartOk"
             /\ sent'[Len(sent')].m.response =
                  (IF credentials.some
                   THEN <<"NUL">> \o credentials.v.username \o <<"NUL">>
                          \o credentials.v.password
                   ELSE GuestResponse)
             /\ StartOkCount(sent) = 0
        ELSE /\ StartOkCount(sent') = StartOkCount(sent)
             /\ ret'.op # "set_credentials" => credentials' = credentials
     /\ StartOkCount(sent') <= 1]_vars

\* the credentials the user set went into the StartOk and left the slot
C10_Witness ==
  /\ FedGlobal(ret).name = "Start"
  /\ IsConnecting(ret.pre, "SentProtocolHeader") /\ IsConnecting(state, "SentStartOk")
  /\ credentials = NoCredentials
  /\ sent[2].m.response = <<"NUL", "u", "NUL", "p", "w">>

PastSaslResponse(st) ==
  \/ st = StConnected
  \/ st.tag = "Closing"
  \/ IsConnecting(st, "SentStartOk") \/ IsConnecting(st, "SentOpen")

\* C11: whenever the connection state is past the SASL response (SentStartOk, SentOpen,
\* Connected, Closing) the credentials slot is empty, because set_credentials takes
\* effect only in state Initial.
C11_NoCredentialsAfterSasl ==
  PastSaslResponse(state) => credentials = NoCredentials

\* C12: whenever the channels registry returns an error for an incoming frame on a
\* channel other than 0, the connection state is ConnectionState::Error afterwards,
\* whether the frame came through parse or through handle_frame.
C12_ChannelErrorPromoted ==
  (/\ FedFrame(ret) # NoFrame
   /\ FrameChannel(FedFrame(ret)) # 0
   /\ ret.kind \in {"Err", "Other"})
    => state = StError

\* the status of channel 1 and the bytes it has assembled
ChannelState(chs) == chs[1].state
Assembled(chs) == chs[1].data

\* C13: on a channel in state Connected a Basic.Deliver gives WillReceiveContent(queue,
\* Some(tag)); then Header(n > 0) gives ReceivingContent(queue, tag, n); a Body of length
\* k < remaining leaves ReceivingContent with remaining - k; the Body that brings the total
\* to n returns the channel to Connected and delivers one message, whose payload is the
\* bodies received since the header, in their order.
C13_ContentAssembly ==
  [][LET f   == FedFrame(ret')
         st  == ChannelState(channels)
         st2 == ChannelState(channels')
     IN (f # NoFrame /\ FrameChannel(f) = 1) =>
          /\ (st = ChConnected /\ IsMethod(f, 1, "Deliver")) =>
                /\ st2 = WillReceiveContent(f.m.routing_key, Some(f.m.consumer_tag))
                /\ deliveries' = deliveries
          /\ (st.tag = "WillReceiveContent" /\ f.type = "Header" /\ f.body_size > 0) =>
                /\ st2 = ReceivingContent(st.queue, st.consumer_tag, f.body_size)
                /\ Assembled(channels') = <<>>
                /\ deliveries' = deliveries
          /\ (st.tag = "ReceivingContent" /\ f.type = "Body"
                /\ Len(f.payload) < st.remaining) =>
                /\ st2 = ReceivingContent(st.queue, st.consumer_tag,
                                          st.remaining - Len(f.payload))
                /\ Assembled(channels') = Assembled(channels) \o f.payload
                /\ deliveries' = deliveries
          /\ (st.tag = "ReceivingContent" /\ f.type = "Body"
                /\ Len(f.payload) = st.remaining) =>
                /\ st2 = ChConnected
                /\ deliveries' = Append(deliveries, Assembled(channels) \o f.payload)
          /\ st2.tag = "ReceivingContent" =>
                /\ st2.remaining > 0
                /\ Len(Assembled(channels')) + st2.remaining \in BodySizes]_vars

\* three bytes announced, received as one byte and then two: one message "abc"
C13_Witness ==
  /\ ret.op = "handle_frame" /\ ret.arg = Body(1, <<"b", "c">>) /\ ret.kind = "Ok"
  /\ ChannelState(channels) = ChConnected
  /\ deliveries = <<<<"a", "b", "c">>>>
  /\ state = StConnected

\* C14: on a channel in WillReceiveContent a Header with body_size 0 takes the channel
\* straight back to Connected and produces one delivery with an empty payload, with no
\* Body frame; the channel is never in ReceivingContent with 0 bytes remaining.
C14_EmptyPayload ==
  [][LET f   == FedFrame(ret')
         st  == ChannelState(channels)
         st2 == ChannelState(channels')
     IN /\ (f = Header(1, 0) /\ st.tag = "WillReceiveContent") =>
             /\ st2 = ChConnected
             /\ deliveries' = Append(deliveries, <<>>)
             /\ ret'.kind = "Ok"
        /\ st2.tag = "ReceivingContent" => st2.remaining # 0]_vars

\* the header of an empty message was handled: one delivery of no byte, channel Connected
C14_Witness ==
  /\ ret.op = "handle_frame" /\ ret.arg = Header(1, 0) /\ ret.kind = "Ok"
  /\ ChannelState(channels) = ChConnected
  /\ deliveries = << <<>> >>

\* the frame is the one the channel waits for in status st
ExpectedFrame(st, f) ==
  \/ st.tag = "Connected" /\ f.type = "Method"
  \/ st.tag = "WillReceiveContent" /\ f.type = "Header"
  \/ st.tag = "ReceivingContent" /\ f.type = "Body" /\ Len(f.payload) <= st.remaining

\* C15: while channel 1 is in WillReceiveContent the only frame it accepts is a Header, and
\* while it is in ReceivingContent(_, _, n) the only frame it accepts is a Body of at most
\* n bytes; any other frame on the channel is refused, moves the channel to Error and
\* produces no delivery. The count of remaining bytes never goes below zero.
C15_ContentFraming ==
  [][LET f   == FedFrame(ret')
         st  == ChannelState(channels)
         st2 == ChannelState(channels')
     IN /\ (/\ f # NoFrame /\ FrameChannel(f) = 1
            /\ st.tag \in {"WillReceiveContent", "ReceivingContent"}) =>
             IF ExpectedFrame(st, f)
             THEN /\ ret'.kind = "Ok"
                  /\ st2.tag \in {"Connected", "ReceivingContent"}
             ELSE /\ ret'.kind \in {"Err", "Other"}
                  /\ st2 = ChError
                  /\ deliveries' = deliveries
        /\ st2.tag = "ReceivingContent" => st2.remaining \in 1..3
        /\ \A i \in 1..Len(deliveries') : Len(deliveries'[i]) \in BodySizes]_vars

\* a body of four bytes came through parse: more than any header announced; the channel
\* is in Error, nothing was delivered
C15_Witness ==
  /\ ret.op = "parse" /\ ret.arg = Complete(Body(1, <<"a", "b", "c", "d">>))
  /\ ret.kind = "Other"
  /\ ChannelState(channels) = ChError
  /\ deliveries = <<>>
  /\ state = StError

\* C17: in state Connected or Closing a channel 0 method other than Close and CloseOk is
\* ignored: the state, the configuration and both outbound queues are unchanged and no
\* frame is emitted.
C17_IgnoredWhenConnected ==
  [][(/\ state.tag \in {"Connected", "Closing"}
      /\ FedGlobal(ret') # NoMethod
      /\ FedGlobal(ret').name \notin {"Close", "CloseOk"}) =>
       /\ UNCHANGED <<state, configuration, credentials, priority_frames, frame_receiver,
                      sent, written>>
       /\ ret'.kind = "Ok"]_vars

\* a Tune with limits of its own arrived on a connected connection and changed nothing
C17_Witness ==
  /\ ret.pre = StConnected /\ state = StConnected
  /\ FedGlobal(ret) = Tune(2047, U32(2, 0), 60)
  /\ configuration = DefaultConfiguration
  /\ Pending = <<>>

\* C18: in every connection state, after a ProtocolHeader frame is received the state is
\* Error and the caller gets an error result from handle_frame and from parse.
C18_ProtocolHeaderIsError ==
  FedFrame(ret) = ProtocolHeader =>
    /\ state = StError
    /\ ret.kind \in {"Err", "Other"}

\* C19: the state machine changes the configuration (channel_max, frame_max, heartbeat)
\* only in the step that handles Connection.Tune in SentStartOk and moves to SentOpen;
\* no other step changes it, so from SentOpen on the three values stay what they are,
\* whatever frames come in.
C19_ConfigurationStable ==
  [][/\ configuration' # configuration =>
          /\ IsConnecting(state, "SentStartOk")
          /\ FedGlobal(ret').name = "Tune"
          /\ IsConnecting(state', "SentOpen")
     /\ (IsConnecting(state, "SentOpen") \/ state.tag \in {"Connected", "Closing", "Closed"})
          => configuration' = configuration]_vars

\* the limits negotiated in the handshake are still there after a second Tune, which
\* arrived on the connected connection
C19_Witness ==
  /\ ret.pre = StConnected /\ state = StConnected
  /\ FedGlobal(ret) = Tune(0, U32Zero, 0)
  /\ configuration = [channel_max |-> 2047, frame_max |-> U32(2, 0), heartbeat |-> 60]

\* the notifiers that wait in a sequence
InSeq(q) == {q[i] : i \in 1..Len(q)}
Watchers(nf) == {n \in DOMAIN nf : n.kind = "watcher"}

\* C16: a Confirmation is resolved at most once and never changes afterwards; try_wait
\* returns Some(result) if and only if it is resolved; every subscriber is notified at
\* most once, and exactly once as soon as the resolution has gone through its
\* subscribers: at resolution if it subscribed before, in its subscribe call if after.
C16_OneShot ==
  [][/\ confirmation.value.some => confirmation'.value = confirmation.value
     /\ ret'.op = "resolve" =>
          /\ ret'.kind = "Ok" <=> ~confirmation.value.some
          /\ ret'.kind = "Ok" => confirmation'.value = Resolved(ret'.arg)
     /\ ret'.op = "try_wait" =>
          IF confirmation.value.some
          THEN ret'.kind = "Some" /\ ret'.val = confirmation.value.v
          ELSE ret'.kind = "None"
     /\ ret'.op = "subscribe" =>
          /\ ret'.arg \notin DOMAIN notified
          /\ notified'[ret'.arg] = (IF confirmation.value.some THEN 1 ELSE 0)
     /\ \A n \in DOMAIN notified' :
          /\ notified'[n] <= 1
          /\ notified'[n] = 1 <=>
               (confirmation'.value.some /\ n \notin InSeq(confirmation'.notifying))
          /\ ~confirmation'.value.some => n \in InSeq(confirmation'.subscribers)
     /\ confirmation'.value.some => confirmation'.subscribers = <<>>]_vars

\* the second subscriber came while the resolution had not yet notified the first: it
\* was notified in its subscribe call, the first one is about to be
C16_Witness ==
  /\ ret.op = "subscribe" /\ ret.arg = Subscriber(2)
  /\ confirmation.value = Resolved("reply")
  /\ confirmation.notifying = <<Subscriber(1)>>
  /\ notified[Subscriber(1)] = 0
  /\ notified[Subscriber(2)] = 1

\* C20: the future registers one notifier, the waker of its first poll, before it reads
\* the slot; a poll returns Ready if and only if the Confirmation is resolved when the
\* poll reads it; once the Confirmation is resolved and a poll had returned Pending, the
\* waker of the first poll is woken, and the task, which polls again when woken,
\* eventually gets Ready.
C20_NoLostWakeup ==
  /\ [][/\ Cardinality(Watchers(notified')) <= 1
        /\ (inner' = Live /\ task'.polls >= 1) => Watchers(notified') = {Watcher(1)}
        /\ (ret'.op = "try_poll" /\ inner = Live) =>
             /\ subscribed /\ Watcher(1) \in DOMAIN notified
             /\ IF confirmation.value.some
                THEN ret'.kind = "Ready" /\ ret'.val = confirmation.value.v
                ELSE ret'.kind = "Pending"
        /\ (/\ task'.last = "Pending" /\ confirmation'.value.some
            /\ confirmation'.notifying = <<>>) =>
             /\ notified'[Watcher(1)] = 1
             /\ task'.pc = "idle" => task'.woken]_vars
  /\ (task.last = "Pending" /\ confirmation.value.some) ~> (task.last = "Ready")

\* the first poll returned Pending, the confirmation was resolved after it, and the
\* resolution has just woken the waker of that poll
C20_Witness ==
  /\ ret.op = "notify" /\ ret.arg = Watcher(1)
  /\ task.last = "Pending" /\ task.pc = "idle" /\ task.woken
  /\ confirmation.value.some
  /\ notified[Watcher(1)] = 1


\* the replies of the client's handshake among frames
HandshakeReplies == {"StartOk", "TuneOk", "Open"}
Replies(frames) == SelectSeq(frames, LAMBDA f : FrameName(f) \in HandshakeReplies)

\* C21: once the state is Error, connect, parse, handle_frame, handle_global_method,
\* serialize, next_frame, send_preemptive_frame and requeue_frame all leave it Error, and
\* none of them enqueues a StartOk, a TuneOk or an Open
C21_ErrorAbsorbing ==
  [][state = StError =>
       /\ state' = StError
       /\ Replies(sent') = Replies(sent)
       /\ Len(Replies(Pending')) <= Len(Replies(Pending))]_vars

\* a Start fed to a connection whose handshake had failed: the state is still Error and
\* no StartOk followed the protocol header
C21_Witness ==
  /\ ret.op = "handle_global_method" /\ ret.arg.name = "Start"
  /\ ret.pre = StError
  /\ state = StError
  /\ Names(sent) = <<"ProtocolHeader">>


\* how many times the frame f stands in frames
Occurrences(f, frames) == Cardinality({i \in DOMAIN frames : frames[i] = f})

\* the frames this step put on the outbound side: on the shared queue, or on the
\* priority deque through send_preemptive_frame
PutNow(f) ==
  Occurrences(f, sent') - Occurrences(f, sent)
    + (IF ret'.op = "send_preemptive_frame" /\ ret'.arg = f THEN 1 ELSE 0)

WrittenNow(f) == Occurrences(f, written') - Occurrences(f, written)

\* the frame a serialize dropped in this step after a generation error other than
\* BufferTooSmall
DroppedNow(f) ==
  IF /\ ret'.op = "serialize" /\ ret'.kind = "InvalidData"
     /\ ret'.val.msg = "could not generate" /\ ret'.val.frame = f
  THEN 1 ELSE 0

OutboundFrames(frames) == {frames[i] : i \in DOMAIN frames}

\* C22: in every step each frame is conserved: the pending frames afterwards are the
\* pending frames before plus the frames put, minus the one frame written or the one
\* frame dropped by a serialize that failed with an error other than BufferTooSmall;
\* so no frame is written more often than it was put
C22_FrameConservation ==
  /\ [][\A f \in OutboundFrames(sent') \cup OutboundFrames(Pending) \cup PriorityFrames :
          /\ Occurrences(f, Pending')
               = Occurrences(f, Pending) + PutNow(f) - WrittenNow(f) - DroppedNow(f)
          /\ WrittenNow(f) \in {0, 1}
          /\ WrittenNow(f) + DroppedNow(f) <= 1
          /\ Len(written') <= Len(written) + 1
          /\ SubSeq(written', 1, Len(written)) = written]_vars
  /\ [](\A f \in OutboundFrames(written) :
          Occurrences(f, written) + Occurrences(f, Pending)
            <= Occurrences(f, sent) + (IF f \in PriorityFrames THEN pushed ELSE 0))

\* a serialize has just dropped a frame it could not generate: the frame was sent once
\* and is neither written nor pending, while other frames are
C22_Witness ==
  /\ ret.op = "serialize" /\ ret.kind = "InvalidData"
  /\ ret.val.msg = "could not generate"
  /\ Occurrences(ret.val.frame, sent) = 1
  /\ Occurrences(ret.val.frame, written \o Pending) = 0
  /\ written # <<>>
  /\ Pending # <<>>


\* the sub-states of Connecting on the path of Start and Tune
StartTunePath ==
  {"SentProtocolHeader", "ReceivedStart", "SentStartOk", "ReceivedTune", "SentTuneOk",
   "SentOpen"}

\* C23: from Connection::new() the public operations keep the state among Initial,
\* Connecting with a sub-state of the Start/Tune path, Connected and Error (never Closing,
\* Closed, Connecting(Error) or a Secure sub-state), and a Close or a CloseOk received on
\* channel 0 in state Connected leaves the state Connected
C23_ReachableStates ==
  /\ [](/\ state.tag \in {"Initial", "Connecting", "Connected", "Error"}
        /\ state.tag = "Connecting" => state.sub.tag \in StartTunePath)
  /\ [][(state = StConnected /\ FedGlobal(ret').name \in {"Close", "CloseOk"}) =>
          /\ state' = StConnected
          /\ ret'.kind = "Ok"
          /\ UNCHANGED <<priority_frames, frame_receiver, sent>>]_vars

\* the server's Connection.Close arrived on a connected connection, which is still
\* Connected and has answered nothing
C23_Witness ==
  /\ ret.op = "parse" /\ FedGlobal(ret) = Close
  /\ ret.pre = StConnected
  /\ state = StConnected
  /\ Names(sent) = Handshake


\* every frame the producer or send_preemptive_frame can put on the outbound side
DrainFrames ==
  PriorityFrames
    \cup {Method(1, Publish(n, key_len)) : n \in 1..MaxEnqueued, key_len \in {1, 300}}
    \cup {Body(1, <<n>>) : n \in 1..MaxEnqueued}

\* C24: has_pending_frames() is true exactly when next_frame() would return a frame, and
\* a serialize returns WouldBlock exactly when it is false; with serialize called again
\* and again with a buffer large enough, every pending frame that can be generated into
\* it is eventually written and the queues are eventually empty, and then serialize
\* returns WouldBlock and has_pending_frames() is false
C24_OutboundDrain ==
  /\ [](HasPendingFramesOf(priority_frames, frame_receiver)
          <=> NextFrameOf(priority_frames, frame_receiver).some)
  /\ [][/\ ret'.op = "has_pending_frames" =>
            ret'.val = NextFrameOf(priority_frames, frame_receiver).some
        /\ ret'.op = "serialize" =>
            (ret'.kind = "WouldBlock"
               <=> ~HasPendingFramesOf(priority_frames, frame_receiver))
        /\ (ret'.op = "serialize" /\ ret'.arg.buf = DrainBuf /\ ret'.kind # "WouldBlock"
             /\ GenFrame(DrainBuf, ret'.arg.frame).ok) =>
            /\ ret'.kind = "Ok"
            /\ written' = Append(written, ret'.arg.frame)]_vars
  /\ \A f \in DrainFrames :
       (Occurrences(f, Pending) > 0 /\ GenFrame(DrainBuf, f).ok)
         ~> (Occurrences(f, Pending) = 0 /\ Occurrences(f, written) > 0)
  /\ (Pending # <<>>) ~> (Pending = <<>>)

\* the producer's frames and a heartbeat have all been written and serialize has just
\* returned WouldBlock
C24_Witness ==
  /\ ret.op = "serialize" /\ ret.kind = "WouldBlock"
  /\ Pending = <<>>
  /\ Len(written) = Len(sent) + pushed
  /\ Len(sent) = MaxEnqueued /\ pushed = MaxPriority

====
